---------------------------- MODULE Spec2Model ----------------------------
(***************************************************************************)
(* A model of multi_output_viewer's rendering engine (src/src/state.rs)    *)
(* and of its control-sequence interpreter (src/src/vte_actions.rs).       *)
(*                                                                         *)
(* Bytes are the integers 0..127.  Program indices are 0-based as in the   *)
(* source; a TLA+ sequence holds the element of program index i at i + 1.  *)
(* The sink `output` is the sequence of everything written to it, one      *)
(* record [cmd, n, txt] per primary byte, crossterm command or panel       *)
(* write.                                                                  *)
(***************************************************************************)
EXTENDS Integers, Sequences, FiniteSets, TLC

(***************************************************************************)
(* Bounds of the model.                                                    *)
(***************************************************************************)
MaxIds == 2            \* Spec: new_secondary_output calls
MaxPrimaryFeeds == 1   \* Spec: handle_primary_bytes calls
MaxSecondaryFeeds == 1 \* Spec: successful handle_secondary_bytes calls
MaxRenders == 2        \* Spec: render calls
SelMaxIds == 3         \* SelSpec: new_secondary_output calls
SelMaxSecondaryFeeds == 1  \* SelSpec: successful handle_secondary_bytes calls
SelMaxSelected == 2    \* SelSpec: selected_index reached by move_cursor_down on an empty list
SelExtraDowns == 5     \* SelSpec: consecutive moves counted beyond the list length
SinkMaxIds == 1        \* SinkSpec: new_secondary_output calls
SinkMaxFeeds == 2      \* SinkSpec: handle_primary_bytes calls
SinkMaxRenders == 3    \* SinkSpec: render calls
SinkMaxFailures == 1   \* SinkSpec: render calls the sink fails
FoldMaxFeeds == 2      \* FoldSpec: handle_primary_bytes calls
FoldMaxRenders == 2    \* FoldSpec: render calls
WinMaxIds == 1         \* WinSpec: new_secondary_output calls
WinMaxSecondaryFeeds == 2  \* WinSpec: successful handle_secondary_bytes calls
WinMaxRenders == 2     \* WinSpec: render calls
TimeMaxIds == 2        \* TimeSpec: new_secondary_output calls
TimeMaxRenders == 2    \* TimeSpec: render calls
SplitMaxIds == 1       \* SplitSpec: new_secondary_output calls
SplitMaxRenders == 3   \* SplitSpec: render calls
OrderMaxIds == 3       \* OrderSpec: new_secondary_output calls
OrderMaxRenders == 1   \* OrderSpec: render calls
CsiMaxFeeds == 2       \* CsiSpec: handle_primary_bytes calls
CsiMaxRenders == 2     \* CsiSpec: render calls
ErrMaxIds == 1             \* secondary outputs created on the failing sink
ErrMaxFeeds == 1           \* handle_primary_bytes calls on the failing sink
ErrMaxSecondaryFeeds == 1  \* handle_secondary_bytes calls on the failing sink
ErrMaxRenders == 2         \* render calls on the failing sink
ErrMaxFailures == 2        \* sink failures
LineMaxIds == 1            \* secondary outputs fed whole lines
LineMaxSecondaryFeeds == 4 \* lines fed to the secondary output
LineMaxRenders == 1        \* render calls after the lines
OvfMaxIds == 1             \* secondary outputs created under the largest movements
OvfMaxFeeds == 2           \* handle_primary_bytes calls with the largest movements
OvfMaxRenders == 2         \* render calls with the largest movements
MixMaxIds == 2             \* secondary producers
MixMaxFeeds == 1           \* byte events of the primary producer
MixMaxSecondaryFeeds == 3  \* byte events of the secondary producers
MixMaxRenders == 1         \* render calls between the byte events

(***************************************************************************)
(* Program constants.                                                      *)
(***************************************************************************)
U16Max == 65535
ScreenRows == 50
TEST_SECONDARY_OUTPUT_MAX_LINES == 3

Max(a, b) == IF a >= b THEN a ELSE b
Min(a, b) == IF a <= b THEN a ELSE b
SaturatingSub(a, b) == IF a >= b THEN a - b ELSE 0

(***************************************************************************)
(* vte_actions.rs: the semantic actions, [kind, n].  n is the parameter of *)
(* a cursor action, the character of a Text, and 0 otherwise.              *)
(***************************************************************************)
VteAction(kind, n) == [kind |-> kind, n |-> n]

\* Performer::execute: only tab, line feed and carriage return act.
Execute(byte) ==
    CASE byte = 9  -> << VteAction("Tab", 0) >>
      [] byte = 10 -> << VteAction("LineFeed", 0) >>
      [] byte = 13 -> << VteAction("CarriageReturn", 0) >>
      [] OTHER     -> << >>

CanonicalizeKeepsZero(params, default) ==
    IF Len(params) > 0 THEN params[1] ELSE default

\* ParamsCanonicalize::canonicalize_1: the first parameter, the default when
\* there is none or it is 0.
canonicalize_1(params, default) ==
    IF Len(params) > 0 /\ params[1] # 0 THEN params[1] ELSE default

CsiDispatchWithIntermediates(params, intermediates, c) ==
    CASE c = 65 -> << VteAction("CursorUp", canonicalize_1(params, 1)) >>
      [] c = 66 -> << VteAction("CursorDown", canonicalize_1(params, 1)) >>
      [] c = 67 -> << VteAction("CursorForward", canonicalize_1(params, 1)) >>
      [] c = 68 -> << VteAction("CursorBackward", canonicalize_1(params, 1)) >>
      [] c = 69 -> << VteAction("CursorNextLine", canonicalize_1(params, 1)) >>
      [] c = 70 -> << VteAction("CursorPreviousLine", canonicalize_1(params, 1)) >>
      [] OTHER  -> << >>

\* Performer::csi_dispatch: no intermediates and a final of A..F.
csi_dispatch(params, intermediates, c) ==
    IF intermediates = 0
    THEN CASE c = 65 -> << VteAction("CursorUp", canonicalize_1(params, 1)) >>
           [] c = 66 -> << VteAction("CursorDown", canonicalize_1(params, 1)) >>
           [] c = 67 -> << VteAction("CursorForward", canonicalize_1(params, 1)) >>
           [] c = 68 -> << VteAction("CursorBackward", canonicalize_1(params, 1)) >>
           [] c = 69 -> << VteAction("CursorNextLine", canonicalize_1(params, 1)) >>
           [] c = 70 -> << VteAction("CursorPreviousLine", canonicalize_1(params, 1)) >>
           [] OTHER  -> << >>
    ELSE << >>

(***************************************************************************)
(* vte::Parser, the state machine VteActionParser feeds byte by byte.  Its *)
(* state: the machine state, the finished parameters, the parameter being  *)
(* read and the number of intermediates collected.                         *)
(***************************************************************************)
ParserNew == [state |-> "ground", params |-> << >>, param |-> 0, inter |-> 0]

ParserClear(st) == [state |-> st, params |-> << >>, param |-> 0, inter |-> 0]

IsC0(b) == b <= 31
IsStringState(st) == st \in {"osc_string", "dcs_string", "sos_pm_apc_string"}

\* One Parser::advance step: [parser, actions].
Advance(p, b) ==
    LET stay(acts) == [parser |-> p, actions |-> acts]
        goto(st, acts) == [parser |-> [p EXCEPT !.state = st], actions |-> acts]
        csi == csi_dispatch(IF Len(p.params) < 32 THEN Append(p.params, p.param)
                                                  ELSE p.params,
                            p.inter, b)
    IN  CASE b = 27 -> [parser |-> ParserClear("escape"), actions |-> << >>]
          [] b \in {24, 26} -> goto("ground", IF IsStringState(p.state)
                                               THEN << >> ELSE Execute(b))
          [] p.state = "osc_string" ->
                IF b = 7 THEN goto("ground", << >>) ELSE stay(<< >>)
          [] p.state \in {"dcs_string", "sos_pm_apc_string"} -> stay(<< >>)
          [] IsC0(b) -> stay(Execute(b))
          [] b = 127 /\ p.state # "ground" -> stay(<< >>)
          [] p.state = "ground" -> stay(<< VteAction("Text", b) >>)
          [] p.state = "escape" ->
                CASE b = 91 -> [parser |-> ParserClear("csi_entry"), actions |-> << >>]
                  [] b = 93 -> goto("osc_string", << >>)
                  [] b = 80 -> goto("dcs_string", << >>)
                  [] b \in {88, 94, 95} -> goto("sos_pm_apc_string", << >>)
                  [] b <= 47 -> goto("escape_intermediate", << >>)
                  [] OTHER -> goto("ground", << >>)
          [] p.state = "escape_intermediate" ->
                IF b <= 47 THEN stay(<< >>) ELSE goto("ground", << >>)
          [] p.state = "csi_ignore" ->
                IF b >= 64 THEN goto("ground", << >>) ELSE stay(<< >>)
          [] b >= 64 -> [parser |-> ParserClear("ground"), actions |-> csi]
          [] b <= 47 ->
                [parser |-> [p EXCEPT !.state = "csi_intermediate",
                                      !.inter = Min(p.inter + 1, 3)],
                 actions |-> << >>]
          [] p.state = "csi_intermediate" -> goto("csi_ignore", << >>)
          [] b <= 57 ->
                [parser |-> [p EXCEPT !.state = "csi_param",
                                      !.param = Min(p.param * 10 + (b - 48), U16Max)],
                 actions |-> << >>]
          [] b \in {58, 59} ->
                [parser |-> [p EXCEPT !.state = "csi_param",
                                      !.params = IF Len(p.params) < 32
                                                 THEN Append(p.params, p.param)
                                                 ELSE p.params,
                                      !.param = 0],
                 actions |-> << >>]
          [] p.state = "csi_entry" ->
                [parser |-> [p EXCEPT !.state = "csi_param",
                                      !.inter = Min(p.inter + 1, 3)],
                 actions |-> << >>]
          [] OTHER -> goto("csi_ignore", << >>)

\* VteActionParser::parse_bytes: advance over the bytes, collecting actions.
\* The loop is split in halves, the first half run before the second, which
\* keeps the depth of evaluation logarithmic in the number of bytes.
RECURSIVE parse_bytes(_, _)
parse_bytes(p, bytes) ==
    IF bytes = << >>
    THEN [parser |-> p, actions |-> << >>]
    ELSE IF Len(bytes) = 1
    THEN Advance(p, bytes[1])
    ELSE LET half == Len(bytes) \div 2
             left == parse_bytes(p, SubSeq(bytes, 1, half))
             right == parse_bytes(left.parser, SubSeq(bytes, half + 1, Len(bytes)))
         IN  [actions |-> left.actions \o right.actions, parser |-> right.parser]


(***************************************************************************)
(* state.rs, State::render lines 94-113: the cursor offset fold.  The      *)
(* offset is a pair of u16; ovf records that an addition left the u16      *)
(* range, in which case x and y hold the wrapped values.                   *)
(***************************************************************************)
AddU16(a, b) == (a + b) % (U16Max + 1)
Overflows(a, b) == a + b > U16Max

FoldActionBackwardAdds(off, a) ==
    LET x == off.x
        y == off.y
        n == a.n
        to(nx, ny, o) == [x |-> nx, y |-> ny, ovf |-> off.ovf \/ o]
    IN  CASE a.kind = "Text" -> to(AddU16(x, 1), y, Overflows(x, 1))
          [] a.kind = "Tab" -> to(AddU16(x, 8 - (x % 8)), y, Overflows(x, 8 - (x % 8)))
          [] a.kind = "LineFeed" -> to(x, SaturatingSub(y, 1), FALSE)
          [] a.kind = "CarriageReturn" -> to(0, y, FALSE)
          [] a.kind = "CursorUp" -> to(x, AddU16(y, n), Overflows(y, n))
          [] a.kind = "CursorDown" -> to(x, SaturatingSub(y, n), FALSE)
          [] a.kind = "CursorForward" -> to(AddU16(x, n), y, Overflows(x, n))
          [] a.kind = "CursorBackward" -> to(AddU16(x, n), y, Overflows(x, n))
          [] a.kind = "CursorNextLine" -> to(0, SaturatingSub(y, n), FALSE)
          [] a.kind = "CursorPreviousLine" -> to(0, AddU16(y, n), Overflows(y, n))

FoldAction(off, a) ==
    LET x == off.x
        y == off.y
        n == a.n
        to(nx, ny, o) == [x |-> nx, y |-> ny, ovf |-> off.ovf \/ o]
    IN  CASE a.kind = "Text" -> to(AddU16(x, 1), y, Overflows(x, 1))
          [] a.kind = "Tab" -> to(AddU16(x, 8 - (x % 8)), y, Overflows(x, 8 - (x % 8)))
          [] a.kind = "LineFeed" -> to(x, SaturatingSub(y, 1), FALSE)
          [] a.kind = "CarriageReturn" -> to(0, y, FALSE)
          [] a.kind = "CursorUp" -> to(x, AddU16(y, n), Overflows(y, n))
          [] a.kind = "CursorDown" -> to(x, SaturatingSub(y, n), FALSE)
          [] a.kind = "CursorForward" -> to(AddU16(x, n), y, Overflows(x, n))
          [] a.kind = "CursorBackward" -> to(SaturatingSub(x, n), y, FALSE)
          [] a.kind = "CursorNextLine" -> to(0, SaturatingSub(y, n), FALSE)
          [] a.kind = "CursorPreviousLine" -> to(0, AddU16(y, n), Overflows(y, n))

RECURSIVE Fold(_, _)
Fold(off, actions) ==
    IF actions = << >> THEN off
    ELSE IF Len(actions) = 1 THEN FoldAction(off, actions[1])
    ELSE LET half == Len(actions) \div 2
         IN  CHOOSE out \in { Fold(left, SubSeq(actions, half + 1, Len(actions))) :
                              left \in { Fold(off, SubSeq(actions, 1, half)) } } : TRUE

(***************************************************************************)
(* The secondary-output line buffer: vt100::Parser::new(50, 50, _) as far  *)
(* as printable bytes, carriage return and line feed drive it.  lines      *)
(* holds the screen rows down to the last one touched (the rows below are  *)
(* empty); a row is its cells up to the last one written.                  *)
(***************************************************************************)
BufferNew == [lines |-> << >>, cursor_row |-> 0, cursor_col |-> 0]

RowAt(lines, r) == IF r + 1 <= Len(lines) THEN lines[r + 1] ELSE << >>

PutCell(row, col, b) ==
    [i \in 1..Max(Len(row), col + 1) |->
        IF i = col + 1 THEN b ELSE IF i <= Len(row) THEN row[i] ELSE 32]

PutAt(lines, r, col, b) ==
    [i \in 1..Max(Len(lines), r + 1) |->
        IF i = r + 1 THEN PutCell(RowAt(lines, r), col, b) ELSE RowAt(lines, i - 1)]

\* A line feed on the last screen row scrolls the first row away.
BufferLineFeed(buf) ==
    IF buf.cursor_row + 1 < ScreenRows
    THEN [buf EXCEPT !.cursor_row = buf.cursor_row + 1]
    ELSE [buf EXCEPT !.lines = IF buf.lines = << >> THEN << >> ELSE Tail(buf.lines)]

BufferByte(buf, b) ==
    CASE b = 13 -> [buf EXCEPT !.cursor_col = 0]
      [] b = 10 -> BufferLineFeed(buf)
      [] b >= 32 /\ b < 127 ->
            LET at == IF buf.cursor_col < ScreenRows THEN buf
                      ELSE [BufferLineFeed(buf) EXCEPT !.cursor_col = 0]
            IN  [at EXCEPT !.lines = PutAt(at.lines, at.cursor_row, at.cursor_col, b),
                           !.cursor_col = at.cursor_col + 1]
      [] OTHER -> buf

\* SecondaryOutputState::handle_bytes
RECURSIVE handle_bytes(_, _)
handle_bytes(buf, bytes) ==
    IF bytes = << >> THEN buf
    ELSE handle_bytes(BufferByte(buf, Head(bytes)), Tail(bytes))


(***************************************************************************)
(* The program state.                                                      *)
(***************************************************************************)
VARIABLES
    output,                              \* State::output, the sink's contents
    primary_bytes,                       \* State::primary_bytes
    primary_output_parser,               \* State::primary_output_parser
    primary_output_final_cursor_offset,  \* [x, y]
    secondary_output_next_id,            \* State::secondary_output_next_id
    secondary_outputs,                   \* Seq of [id, title, start, expanded, buffer]
    secondary_output_selected_index,     \* State::secondary_output_selected_index
    previous_render_extra_lines,         \* State::previous_render_extra_lines
    now,          \* Instant::now(), in milliseconds after the reference instant
    build,        \* "any" until an integer overflow has wrapped, then "release"
    aborted,      \* a panic has unwound out of a call
    term,         \* the terminal the sink's contents are shown on
    last,         \* the last call: [op, id, ok]
    fed,          \* every byte passed to handle_primary_bytes, in order
    returned,     \* the ids new_secondary_output has returned, in order
    removed,      \* the ids remove_secondary_output has removed
    created,      \* the instant of each new_secondary_output call, in order
    sfed,         \* the successful handle_secondary_bytes calls, in order: [id, bytes]
    count,        \* calls made so far: [feeds, sfeeds, renders, failures]
    run,          \* the consecutive cursor moves just made: [op, n, from]
    script,       \* byte slices still to be passed by a scripted caller
    limit         \* the calls and inputs explored by the specification

engine == << output, primary_bytes, primary_output_parser,
             primary_output_final_cursor_offset, secondary_output_next_id,
             secondary_outputs, secondary_output_selected_index,
             previous_render_extra_lines >>

vars == << output, primary_bytes, primary_output_parser,
           primary_output_final_cursor_offset, secondary_output_next_id,
           secondary_outputs, secondary_output_selected_index,
           previous_render_extra_lines, now, build, aborted, term, last, fed,
           returned, removed, count, run, script, created, sfed, limit >>

secondary_output_max_lines == TEST_SECONDARY_OUTPUT_MAX_LINES
secondary_output_reference_start_time == 0
MillisPerSecond == 1000

\* Inputs explored: titles, and the byte slices a specification's limit names.
Titles == { << 111, 110, 101 >> }
Text_a == << 97 >>
TextBackspace == << 97, 8 >>
CrLf == << 13, 10 >>
CsiUp2 == << 27, 91, 50, 65 >>
TextUp2 == << 97, 27, 91, 50, 65 >>
TwoLines == << 97, 13, 10, 98 >>
Text_bc == << 98, 99 >>
\* "a\r\nb\r\nc\r\nd\r\n"
FourLines == << 97, 13, 10, 98, 13, 10, 99, 13, 10, 100, 13, 10 >>
Tab == << 9 >>
LineFeed == << 10 >>
CarriageReturn == << 13 >>
CsiDown == << 27, 91, 66 >>
CsiForward3 == << 27, 91, 51, 67 >>
CsiBackward3 == << 27, 91, 51, 68 >>
CsiNextLine2 == << 27, 91, 50, 69 >>
CsiPreviousLine == << 27, 91, 70 >>
\* "abc\r\ndef\r\nghi" ESC[3D ESC[1A ESC[3C
Example == << 97, 98, 99, 13, 10, 100, 101, 102, 13, 10, 103, 104, 105,
              27, 91, 51, 68, 27, 91, 49, 65, 27, 91, 51, 67 >>
FoldChunks == { Text_a, Tab, LineFeed, CarriageReturn, CsiUp2, CsiDown,
                CsiForward3, CsiBackward3, CsiNextLine2, CsiPreviousLine,
                Example }
Ids == 0..limit.ids

\* A call as `last` records it.  The id is that of the output named; NoId when
\* the call names none, or fails and the specification does not log failed ids.
NoId == limit.ids + 1
Call(op, id, ok) ==
    [op |-> op, id |-> IF ok \/ limit.log_failed_ids THEN id ELSE NoId, ok |-> ok]

\* The run of consecutive calls of one cursor move, counted up to limit.run.
NoRun == [op |-> "none", n |-> 0, from |-> 0]
NextRun(op) ==
    IF limit.run = 0 THEN NoRun
    ELSE IF run.op = op THEN [run EXCEPT !.n = Min(@ + 1, limit.run)]
    ELSE [op |-> op, n |-> 1, from |-> secondary_output_selected_index]

(***************************************************************************)
(* What render writes.                                                     *)
(***************************************************************************)
Tok(cmd, n, txt) == [cmd |-> cmd, n |-> n, txt |-> txt]

RECURSIVE Concat(_)
Concat(seqs) == IF seqs = << >> THEN << >> ELSE Head(seqs) \o Concat(Tail(seqs))

ResetTokensUpY(extra, off) ==
    IF extra > 0
    THEN << Tok("MoveToColumn", 0, << >>),
            Tok("MoveUp", extra, << >>),
            Tok("Clear", 0, << >>),
            Tok("MoveUp", off.y, << >>),
            Tok("MoveRight", off.x, << >>) >>
    ELSE << >>

\* render lines 81-90: the reset prefix.
ResetTokens(extra, off) ==
    IF extra > 0
    THEN << Tok("MoveToColumn", 0, << >>),
            Tok("MoveUp", extra, << >>),
            Tok("Clear", 0, << >>),
            Tok("MoveUp", AddU16(off.y, 1), << >>),
            Tok("MoveRight", off.x, << >>) >>
    ELSE << >>

\* render line 93: the pending bytes, verbatim.
PrimaryTokens(bytes) == [i \in 1..Len(bytes) |-> Tok("Byte", bytes[i], << >>)]

\* render lines 146-160: the last row of an expanded output to show.
LastNonEmptyRow(lines) ==
    LET S == { i \in 1..Len(lines) : lines[i] # << >> }
    IN  IF S = {} THEN 0 ELSE (CHOOSE i \in S : \A j \in S : j <= i) - 1

EndIdxAtCursorRow(buf) ==
    Max(buf.cursor_row, LastNonEmptyRow(buf.lines))

EndIdx(buf) ==
    Max(SaturatingSub(buf.cursor_row, IF buf.cursor_col = 0 THEN 1 ELSE 0),
        LastNonEmptyRow(buf.lines))

\* render lines 161-167: the rows shown, each followed by a line break.
ExpandedTokens(buf) ==
    LET end_idx == EndIdx(buf)
        start_idx == SaturatingSub(end_idx, secondary_output_max_lines - 1)
    IN  IF end_idx > 0
        THEN Concat([k \in 1..(end_idx - start_idx + 1) |->
                        << Tok("Row", 0, RowAt(buf.lines, start_idx + k - 1)),
                           Tok("Newline", 0, << >>) >>])
        ELSE << >>

\* render lines 127-168: one secondary output, at program index i.
OutputTokens(o, i, selected, at) ==
    << Tok("Cursor", IF i = selected THEN 1 ELSE 0, << >>),
       Tok("Indicator", IF o.expanded THEN 1 ELSE 0, << >>),
       Tok("Title", (at - o.start) \div MillisPerSecond, o.title),
       Tok("Newline", 0, << >>) >>
    \o (IF o.expanded THEN ExpandedTokens(o.buffer) ELSE << >>)

\* render lines 119-170: the panel.
PanelTokens(outs, selected, y, at) ==
    IF outs = << >> THEN << >>
    ELSE << Tok("MoveToColumn", 0, << >>), Tok("MoveDown", AddU16(y, 1), << >>) >>
         \o Concat([i \in 1..Len(outs) |-> OutputTokens(outs[i], i - 1, selected, at)])

NewlineCallsHeadersOnly(panel, k) ==
    Cardinality({ i \in 1..Min(k, Len(panel)) : panel[i].cmd = "Title" })

\* The newline() calls made while the first k panel writes are attempted.
NewlineCalls(panel, k) ==
    Cardinality({ i \in 1..Min(k, Len(panel)) : panel[i].cmd = "Newline" })


(***************************************************************************)
(* The terminal showing the sink: an unbounded grid, rows numbered         *)
(* downwards, on which a cursor command moves by exactly its argument.     *)
(* Primary bytes go through the terminal's own escape-sequence parser; it  *)
(* also obeys backspace (8), which the interpreter does not track.  A      *)
(* command written by render is a complete escape sequence: it abandons a  *)
(* sequence the primary bytes left unfinished.                             *)
(***************************************************************************)
TermNew == [row |-> 0, col |-> 0, parser |-> ParserNew]

TermAction(t, a) ==
    CASE a.kind = "Text" -> [t EXCEPT !.col = t.col + 1]
      [] a.kind = "Tab" -> [t EXCEPT !.col = t.col + (8 - (t.col % 8))]
      [] a.kind = "LineFeed" -> [t EXCEPT !.row = t.row + 1]
      [] a.kind = "CarriageReturn" -> [t EXCEPT !.col = 0]
      [] a.kind = "CursorUp" -> [t EXCEPT !.row = t.row - a.n]
      [] a.kind = "CursorDown" -> [t EXCEPT !.row = t.row + a.n]
      [] a.kind = "CursorForward" -> [t EXCEPT !.col = t.col + a.n]
      [] a.kind = "CursorBackward" -> [t EXCEPT !.col = SaturatingSub(t.col, a.n)]
      [] a.kind = "CursorNextLine" -> [t EXCEPT !.row = t.row + a.n, !.col = 0]
      [] a.kind = "CursorPreviousLine" -> [t EXCEPT !.row = t.row - a.n, !.col = 0]

TermByte(t, b) ==
    LET step == Advance(t.parser, b)
        moved == IF step.actions = << >> THEN t ELSE TermAction(t, step.actions[1])
        back == IF b = 8 /\ ~IsStringState(t.parser.state)
                THEN [moved EXCEPT !.col = SaturatingSub(moved.col, 1)] ELSE moved
    IN  [back EXCEPT !.parser = step.parser]

TermToken(t, tok) ==
    LET g == [t EXCEPT !.parser = ParserNew]
    IN  CASE tok.cmd = "Byte" -> TermByte(t, tok.n)
          [] tok.cmd = "MoveToColumn" -> [g EXCEPT !.col = tok.n]
          [] tok.cmd = "MoveUp" -> [g EXCEPT !.row = t.row - tok.n]
          [] tok.cmd = "MoveDown" -> [g EXCEPT !.row = t.row + tok.n]
          [] tok.cmd = "MoveRight" -> [g EXCEPT !.col = t.col + tok.n]
          [] tok.cmd = "Clear" -> g
          [] tok.cmd = "Cursor" -> [t EXCEPT !.col = t.col + 2]
          [] tok.cmd = "Indicator" -> [t EXCEPT !.col = t.col + 3]
          [] tok.cmd = "Title" -> [t EXCEPT !.col = t.col + 6 + Len(tok.txt)]
          [] tok.cmd = "Row" -> [t EXCEPT !.col = t.col + Len(tok.txt)]
          [] tok.cmd = "Newline" -> [t EXCEPT !.row = t.row + 1, !.col = 0]

\* The writes in order: the first half, then the second half from the terminal
\* the first half left.
RECURSIVE TermTokens(_, _)
TermTokens(t, toks) ==
    IF toks = << >> THEN t
    ELSE IF Len(toks) = 1 THEN TermToken(t, toks[1])
    ELSE LET half == Len(toks) \div 2
         IN  CHOOSE out \in { TermTokens(left, SubSeq(toks, half + 1, Len(toks))) :
                              left \in { TermTokens(t, SubSeq(toks, 1, half)) } } : TRUE

Cursor(t) == [row |-> t.row, col |-> t.col]

(***************************************************************************)
(* State::new                                                              *)
(***************************************************************************)
InitEngine ==
    /\ output = << >>
    /\ primary_bytes = << >>
    /\ primary_output_parser = ParserNew
    /\ primary_output_final_cursor_offset = [x |-> 0, y |-> 0]
    /\ secondary_output_next_id = 0
    /\ secondary_outputs = << >>
    /\ secondary_output_selected_index = 0
    /\ previous_render_extra_lines = 0
    /\ now = secondary_output_reference_start_time
    /\ build = "any"
    /\ aborted = FALSE
    /\ term = [cur |-> TermNew, afterReset |-> Cursor(TermNew),
               afterPrimary |-> Cursor(TermNew)]
    /\ last = Call("new_state", NoId, TRUE)
    /\ fed = << >>
    /\ returned = << >>
    /\ removed = {}
    /\ created = << >>
    /\ sfed = << >>
    /\ count = [feeds |-> 0, sfeeds |-> 0, renders |-> 0, failures |-> 0]
    /\ run = NoRun

Init ==
    /\ limit = [ids |-> MaxIds, feeds |-> MaxPrimaryFeeds,
                sfeeds |-> MaxSecondaryFeeds, renders |-> MaxRenders,
                failures |-> 0, run |-> 0, selected |-> 0,
                log_failed_ids |-> FALSE,
                primary |-> { TextUp2, TextBackspace },
                secondary |-> { TwoLines }]
    /\ InitEngine
    /\ script = << >>

(***************************************************************************)
(* State::render.  written is the number of sink writes that succeed: all  *)
(* of them and the flush (Len(all) + 1), all of them but not the flush     *)
(* (Len(all)), or the writes before the first that fails.                  *)
(***************************************************************************)
RenderWrites ==
    LET off == primary_output_final_cursor_offset
        reset == ResetTokens(previous_render_extra_lines, off)
        prim == PrimaryTokens(primary_bytes)
        parsed == parse_bytes(primary_output_parser, primary_bytes)
        folded == Fold([x |-> off.x, y |-> off.y, ovf |-> FALSE], parsed.actions)
        panel == PanelTokens(secondary_outputs, secondary_output_selected_index,
                             folded.y, now)
    IN  [reset |-> reset, prim |-> prim, parsed |-> parsed, folded |-> folded,
         panel |-> panel, all |-> reset \o prim \o panel]

\* The integer overflows of render, each with the number of sink writes made
\* before it: y + 1 of the reset prefix, an addition of the fold, y + 1 of the
\* panel.
RenderOverflows(w) ==
    LET off == primary_output_final_cursor_offset
        before == Len(w.reset) + Len(w.prim)
    IN  (IF w.reset # << >> /\ Overflows(off.y, 1) THEN { 3 } ELSE {})
        \cup (IF w.folded.ovf THEN { before } ELSE {})
        \cup (IF w.panel # << >> /\ Overflows(w.folded.y, 1) THEN { before + 1 } ELSE {})

SetMin(S) == CHOOSE m \in S : \A k \in S : m <= k

\* The engine after render got as far as `progress` sink writes.
PendingAfterRenderKept(bytes) == bytes

ParserAfterRenderFresh(parsed) == ParserNew

\* render line 94: parse_bytes advances primary_output_parser in place, and
\* the parser keeps the state the bytes left it in.
ParserAfterRender(parsed) == parsed.parser

\* render line 115: primary_bytes.clear().
PendingAfterRender(bytes) == << >>

SinkWritesPastFailure(all, progress) ==
    IF progress >= Len(all) THEN all
    ELSE SubSeq(all, 1, progress) \o SubSeq(all, progress + 2, Len(all))

\* render's `?` after every write: the writes made when the first `progress`
\* of them succeed are those, and none after the one that fails.
SinkWrites(all, progress) == SubSeq(all, 1, Min(progress, Len(all)))

RenderEffect(w, progress, ok) ==
    LET before == Len(w.reset) + Len(w.prim)
        done == SinkWrites(w.all, progress)
    IN  /\ output' = output \o done
        /\ IF progress < before
           THEN UNCHANGED << primary_bytes, primary_output_parser,
                             primary_output_final_cursor_offset,
                             previous_render_extra_lines >>
           ELSE /\ primary_bytes' = PendingAfterRender(primary_bytes)
                /\ primary_output_parser' = ParserAfterRender(w.parsed)
                /\ primary_output_final_cursor_offset' =
                        [x |-> w.folded.x, y |-> w.folded.y]
                /\ previous_render_extra_lines' =
                        NewlineCalls(w.panel, progress - before + 1)
        /\ term' = [cur |-> TermTokens(term.cur, done),
                    afterReset |->
                        IF progress >= Len(w.reset)
                        THEN Cursor(TermTokens(term.cur, w.reset))
                        ELSE term.afterReset,
                    afterPrimary |->
                        IF progress >= before
                        THEN Cursor(TermTokens(term.cur, w.reset \o w.prim))
                        ELSE term.afterPrimary]
        /\ last' = Call("render", NoId, ok)
        /\ run' = NoRun
        /\ count' = [count EXCEPT !.renders = @ + 1,
                                  !.failures = IF ok THEN @ ELSE @ + 1]

\* The engine when render panics after `at` sink writes: an overflow of the
\* fold leaves the pending bytes and the offset as they were.
RenderPanic(w, at) ==
    LET before == Len(w.reset) + Len(w.prim)
    IN  /\ output' = output \o SubSeq(w.all, 1, at)
        /\ primary_output_parser' =
                IF at < before THEN primary_output_parser
                ELSE ParserAfterRender(w.parsed)
        /\ IF at <= before
           THEN UNCHANGED << primary_bytes, primary_output_final_cursor_offset,
                             previous_render_extra_lines >>
           ELSE /\ primary_bytes' = PendingAfterRender(primary_bytes)
                /\ primary_output_final_cursor_offset' =
                        [x |-> w.folded.x, y |-> w.folded.y]
                /\ previous_render_extra_lines' = 0
        /\ term' = [term EXCEPT !.cur = TermTokens(term.cur, SubSeq(w.all, 1, at))]
        /\ last' = Call("render", NoId, FALSE)
        /\ run' = NoRun
        /\ count' = [count EXCEPT !.renders = @ + 1]

Render(written) ==
    LET w == RenderWrites
        ok == written = Len(w.all) + 1
        reached == { s \in RenderOverflows(w) : s <= written }
    IN  /\ ~aborted
        /\ count.renders < limit.renders
        /\ ~ok => count.failures < limit.failures
        /\ \E outcome \in IF reached = {} THEN { "run" }
                          ELSE { "wrap" } \cup
                               (IF build = "any" THEN { "panic" } ELSE {}) :
              IF outcome = "panic"
              THEN /\ RenderPanic(w, SetMin(reached))
                   /\ aborted' = TRUE
                   /\ build' = build
              ELSE /\ RenderEffect(w, written, ok)
                   /\ aborted' = aborted
                   /\ build' = IF outcome = "wrap" THEN "release" ELSE build
        /\ UNCHANGED << secondary_output_next_id, secondary_outputs,
                        secondary_output_selected_index, now, fed, returned,
                        removed, script, created, sfed, limit >>

(***************************************************************************)
(* State::handle_primary_bytes                                             *)
(***************************************************************************)
HandlePrimaryBytesWritesThrough(bytes) ==
    /\ ~aborted
    /\ primary_bytes' = primary_bytes \o bytes
    /\ output' = output \o PrimaryTokens(bytes)
    /\ fed' = fed \o bytes
    /\ last' = Call("handle_primary_bytes", NoId, TRUE)
    /\ run' = NoRun
    /\ count' = [count EXCEPT !.feeds = @ + 1]
    /\ UNCHANGED << primary_output_parser,
                    primary_output_final_cursor_offset, secondary_output_next_id,
                    secondary_outputs, secondary_output_selected_index,
                    previous_render_extra_lines, now, build, aborted, term,
                    returned, removed >>

HandlePrimaryBytes(bytes) ==
    /\ ~aborted
    /\ primary_bytes' = primary_bytes \o bytes
    /\ fed' = fed \o bytes
    /\ last' = Call("handle_primary_bytes", NoId, TRUE)
    /\ run' = NoRun
    /\ count' = [count EXCEPT !.feeds = @ + 1]
    /\ UNCHANGED << output, primary_output_parser,
                    primary_output_final_cursor_offset, secondary_output_next_id,
                    secondary_outputs, secondary_output_selected_index,
                    previous_render_extra_lines, now, build, aborted, term,
                    returned, removed >>

FeedPrimary(bytes) ==
    /\ count.feeds < limit.feeds
    /\ HandlePrimaryBytes(bytes)
    /\ UNCHANGED << script, created, sfed, limit >>

(***************************************************************************)
(* SecondaryOutputId::next_id and State::new_secondary_output              *)
(***************************************************************************)
NextIdKeeps(id) == id

NextId(id) == id + 1

\* The start time: the reference plus the whole seconds since it.
AlignedStartExact(at) == at

\* new_secondary_output lines 184-187: the creation instant rounded down to a
\* whole number of seconds after the reference instant.
AlignedStart(at) ==
    secondary_output_reference_start_time
    + MillisPerSecond
      * ((at - secondary_output_reference_start_time) \div MillisPerSecond)

NewSecondaryOutput(title) ==
    LET id == secondary_output_next_id
    IN  /\ ~aborted
        /\ secondary_output_next_id < limit.ids
        /\ secondary_output_next_id' = NextId(secondary_output_next_id)
        /\ secondary_outputs' =
                Append(secondary_outputs,
                       [id |-> id, title |-> title, start |-> AlignedStart(now),
                        expanded |-> FALSE, buffer |-> BufferNew])
        /\ returned' = Append(returned, id)
        /\ created' = Append(created, now)
        /\ last' = Call("new_secondary_output", id, TRUE)
        /\ run' = NoRun
        /\ UNCHANGED << output, primary_bytes, primary_output_parser,
                        primary_output_final_cursor_offset,
                        secondary_output_selected_index,
                        previous_render_extra_lines, now, build, aborted, term,
                        fed, removed, count, script, sfed, limit >>

(***************************************************************************)
(* State::secondary_output_position: the program index of the first output *)
(* with the id, or the invalid-id error.                                   *)
(***************************************************************************)
secondary_output_position(outs, id) ==
    LET S == { i \in 1..Len(outs) : outs[i].id = id }
    IN  IF S = {} THEN [ok |-> FALSE, idx |-> 0]
        ELSE [ok |-> TRUE, idx |-> SetMin(S) - 1]

\* Vec::remove
VecRemoveSwap(v, idx) ==
    [i \in 1..(Len(v) - 1) |-> IF i = idx + 1 THEN v[Len(v)] ELSE v[i]]

\* Vec::remove: the elements after idx move one place down.
VecRemove(v, idx) ==
    [i \in 1..(Len(v) - 1) |-> IF i <= idx THEN v[i] ELSE v[i + 1]]


(***************************************************************************)
(* State::remove_secondary_output: [ok, outs, selected], the result and    *)
(* the list and selection it leaves.                                       *)
(***************************************************************************)
SelectedAfterRemoveNever(selected, idx) == selected

SelectedAfterRemove(selected, idx) ==
    IF selected > idx THEN selected - 1 ELSE selected

RemoveMovesSelectionFirst(outs, selected, id) ==
    LET pos == secondary_output_position(outs, id)
    IN  IF pos.ok
        THEN [ok |-> TRUE, outs |-> VecRemove(outs, pos.idx),
              selected |-> SelectedAfterRemove(selected, pos.idx)]
        ELSE [ok |-> FALSE, outs |-> outs, selected |-> SaturatingSub(selected, 1)]

remove_secondary_output(outs, selected, id) ==
    LET pos == secondary_output_position(outs, id)
    IN  IF pos.ok
        THEN [ok |-> TRUE, outs |-> VecRemove(outs, pos.idx),
              selected |-> SelectedAfterRemove(selected, pos.idx)]
        ELSE [ok |-> FALSE, outs |-> outs, selected |-> selected]

RemoveSecondaryOutput(id) ==
    LET r == remove_secondary_output(secondary_outputs,
                                     secondary_output_selected_index, id)
    IN  /\ ~aborted
        /\ secondary_outputs' = r.outs
        /\ secondary_output_selected_index' = r.selected
        /\ removed' = IF r.ok THEN removed \cup { id } ELSE removed
        /\ last' = Call("remove_secondary_output", id, r.ok)
        /\ run' = NoRun
        /\ UNCHANGED << output, primary_bytes, primary_output_parser,
                        primary_output_final_cursor_offset,
                        secondary_output_next_id, previous_render_extra_lines,
                        now, build, aborted, term, fed, returned, count, script, created, sfed, limit >>

(***************************************************************************)
(* State::handle_secondary_bytes: [ok, outs].                              *)
(***************************************************************************)
HandleSecondaryBytesShared(outs, id, bytes) ==
    LET pos == secondary_output_position(outs, id)
    IN  IF pos.ok
        THEN [ok |-> TRUE,
              outs |-> [i \in 1..Len(outs) |->
                           [outs[i] EXCEPT !.buffer = handle_bytes(@, bytes)]]]
        ELSE [ok |-> FALSE, outs |-> outs]

handle_secondary_bytes(outs, id, bytes) ==
    LET pos == secondary_output_position(outs, id)
    IN  IF pos.ok
        THEN [ok |-> TRUE,
              outs |-> [outs EXCEPT ![pos.idx + 1].buffer = handle_bytes(@, bytes)]]
        ELSE [ok |-> FALSE, outs |-> outs]

HandleSecondaryBytes(id, bytes) ==
    LET r == handle_secondary_bytes(secondary_outputs, id, bytes)
    IN  /\ ~aborted
        /\ r.ok => count.sfeeds < limit.sfeeds
        /\ secondary_outputs' = r.outs
        /\ count' = IF r.ok THEN [count EXCEPT !.sfeeds = @ + 1] ELSE count
        /\ sfed' = IF r.ok THEN Append(sfed, [id |-> id, bytes |-> bytes]) ELSE sfed
        /\ last' = Call("handle_secondary_bytes", id, r.ok)
        /\ run' = NoRun
        /\ UNCHANGED << output, primary_bytes, primary_output_parser,
                        primary_output_final_cursor_offset,
                        secondary_output_next_id,
                        secondary_output_selected_index,
                        previous_render_extra_lines, now, build, aborted, term,
                        fed, returned, removed, script, created, limit >>

(***************************************************************************)
(* State::move_cursor_down.  On an empty list len() - 1 overflows usize:   *)
(* the call panics where overflow is checked, and elsewhere the difference *)
(* wraps to usize::MAX, so that the minimum is selected_index + 1.         *)
(***************************************************************************)
MoveCursorDownUnclamped(selected, len) == selected + 1

move_cursor_down(selected, len) ==
    IF len = 0 THEN selected + 1 ELSE Min(selected + 1, len - 1)

MoveCursorDown ==
    LET len == Len(secondary_outputs)
    IN  /\ ~aborted
        /\ \E outcome \in IF len > 0 THEN { "run" }
                          ELSE { "wrap" } \cup
                               (IF build = "any" THEN { "panic" } ELSE {}) :
              IF outcome = "panic"
              THEN /\ aborted' = TRUE
                   /\ UNCHANGED << secondary_output_selected_index, build >>
              ELSE /\ len = 0 => secondary_output_selected_index < limit.selected
                   /\ secondary_output_selected_index' =
                        move_cursor_down(secondary_output_selected_index, len)
                   /\ build' = IF outcome = "wrap" THEN "release" ELSE build
                   /\ aborted' = aborted
        /\ last' = Call("move_cursor_down", NoId, TRUE)
        /\ run' = NextRun("move_cursor_down")
        /\ UNCHANGED << output, primary_bytes, primary_output_parser,
                        primary_output_final_cursor_offset,
                        secondary_output_next_id, secondary_outputs,
                        previous_render_extra_lines, now, term, fed, returned,
                        removed, count, script, created, sfed, limit >>

(***************************************************************************)
(* State::move_cursor_up                                                   *)
(***************************************************************************)
move_cursor_up(selected) == SaturatingSub(selected, 1)

MoveCursorUp ==
    /\ ~aborted
    /\ secondary_output_selected_index' =
            move_cursor_up(secondary_output_selected_index)
    /\ last' = Call("move_cursor_up", NoId, TRUE)
    /\ run' = NextRun("move_cursor_up")
    /\ UNCHANGED << output, primary_bytes, primary_output_parser,
                    primary_output_final_cursor_offset, secondary_output_next_id,
                    secondary_outputs, previous_render_extra_lines, now, build,
                    aborted, term, fed, returned, removed, count, script, created, sfed, limit >>

(***************************************************************************)
(* State::toggle_current_selection_expanded                                *)
(***************************************************************************)
toggle_current_selection_expanded(outs, selected) ==
    IF selected < Len(outs)
    THEN [outs EXCEPT ![selected + 1].expanded = ~@]
    ELSE outs

ToggleCurrentSelectionExpanded ==
    /\ ~aborted
    /\ secondary_outputs' =
            toggle_current_selection_expanded(secondary_outputs,
                                              secondary_output_selected_index)
    /\ last' = Call("toggle_current_selection_expanded", NoId, TRUE)
    /\ run' = NoRun
    /\ UNCHANGED << output, primary_bytes, primary_output_parser,
                    primary_output_final_cursor_offset, secondary_output_next_id,
                    secondary_output_selected_index, previous_render_extra_lines,
                    now, build, aborted, term, fed, returned, removed, count,
                    script, created, sfed, limit >>

(***************************************************************************)
(* The engine under any caller.                                            *)
(***************************************************************************)
Next ==
    \/ \E written \in 0..(Len(RenderWrites.all) + 1) : Render(written)
    \/ \E bytes \in limit.primary : FeedPrimary(bytes)
    \/ \E title \in Titles : NewSecondaryOutput(title)
    \/ \E id \in Ids : RemoveSecondaryOutput(id)
    \/ \E id \in Ids, bytes \in limit.secondary : HandleSecondaryBytes(id, bytes)
    \/ MoveCursorDown
    \/ MoveCursorUp
    \/ ToggleCurrentSelectionExpanded

Spec == Init /\ [][Next]_vars

(***************************************************************************)
(* The engine under a caller that creates, feeds, removes and navigates    *)
(* secondary outputs and never renders.                                    *)
(***************************************************************************)
SelInit ==
    /\ limit = [ids |-> SelMaxIds, feeds |-> 0, sfeeds |-> SelMaxSecondaryFeeds,
                renders |-> 0, failures |-> 0, run |-> SelMaxIds + SelExtraDowns,
                selected |-> SelMaxSelected, log_failed_ids |-> TRUE,
                primary |-> {}, secondary |-> { Text_a, CrLf }]
    /\ InitEngine
    /\ script = << >>

SelNext ==
    \/ \E title \in Titles : NewSecondaryOutput(title)
    \/ \E id \in Ids : RemoveSecondaryOutput(id)
    \/ \E id \in Ids, bytes \in limit.secondary : HandleSecondaryBytes(id, bytes)
    \/ MoveCursorDown
    \/ MoveCursorUp
    \/ ToggleCurrentSelectionExpanded

SelSpec == SelInit /\ [][SelNext]_vars

(***************************************************************************)
(* The engine on a sink that may fail once, under a caller that feeds      *)
(* primary bytes, creates a secondary output and renders.                  *)
(***************************************************************************)
SinkInit ==
    /\ limit = [ids |-> SinkMaxIds, feeds |-> SinkMaxFeeds, sfeeds |-> 0,
                renders |-> SinkMaxRenders, failures |-> SinkMaxFailures,
                run |-> 0, selected |-> 0, log_failed_ids |-> FALSE,
                primary |-> { Text_a, Text_bc }, secondary |-> {}]
    /\ InitEngine
    /\ script = << >>

SinkNext ==
    \/ \E written \in 0..(Len(RenderWrites.all) + 1) : Render(written)
    \/ \E bytes \in limit.primary : FeedPrimary(bytes)
    \/ \E title \in Titles : NewSecondaryOutput(title)

SinkSpec == SinkInit /\ [][SinkNext]_vars

(***************************************************************************)
(* The engine on a sink that may fail in every render, under a caller that *)
(* feeds text and cursor movements to the primary output and lines to an   *)
(* expanded secondary output.                                              *)
(***************************************************************************)
ErrInit ==
    /\ limit = [ids |-> ErrMaxIds, feeds |-> ErrMaxFeeds,
                sfeeds |-> ErrMaxSecondaryFeeds,
                renders |-> ErrMaxRenders, failures |-> ErrMaxFailures,
                run |-> 0, selected |-> 0, log_failed_ids |-> FALSE,
                primary |-> { Text_a, TextUp2, TextBackspace },
                secondary |-> { TwoLines, CrLf }]
    /\ InitEngine
    /\ script = << >>

ErrNext ==
    \/ \E written \in 0..(Len(RenderWrites.all) + 1) : Render(written)
    \/ \E bytes \in limit.primary : FeedPrimary(bytes)
    \/ \E title \in Titles : NewSecondaryOutput(title)
    \/ \E id \in Ids, bytes \in limit.secondary : HandleSecondaryBytes(id, bytes)
    \/ ToggleCurrentSelectionExpanded

ErrSpec == ErrInit /\ [][ErrNext]_vars

(***************************************************************************)
(* The engine under a caller that feeds primary bytes and renders, the     *)
(* bytes drawn from one chunk for each kind of action and from the example *)
(* of the interpreter's documentation.                                     *)
(***************************************************************************)
FoldInit ==
    /\ limit = [ids |-> 0, feeds |-> FoldMaxFeeds, sfeeds |-> 0,
                renders |-> FoldMaxRenders, failures |-> 0,
                run |-> 0, selected |-> 0, log_failed_ids |-> FALSE,
                primary |-> FoldChunks, secondary |-> {}]
    /\ InitEngine
    /\ script = << >>

FoldNext ==
    \/ \E written \in 0..(Len(RenderWrites.all) + 1) : Render(written)
    \/ \E bytes \in limit.primary : FeedPrimary(bytes)

FoldSpec == FoldInit /\ [][FoldNext]_vars

(***************************************************************************)
(* The engine under a caller that passes whole control sequences and       *)
(* control bytes and renders: CSI sequences with a final of A..F, a first  *)
(* parameter omitted, 0 or positive and a second parameter or none, and    *)
(* input the interpreter does not recognise.                               *)
(***************************************************************************)
ParamTexts == { << >>, << 48 >>, << 49 >>, << 50 >>, << 49, 50 >>, << 48, 55 >> }
MoreParams == { << >>, << 59, 53 >> }
CursorFinals == 65..70

CsiBytes(digits, more, final) == << 27, 91 >> \o digits \o more \o << final >>

CsiFeeds == { CsiBytes(d, m, f) : d \in ParamTexts, m \in MoreParams,
                                  f \in CursorFinals }

\* CSI with a final of G or m, CSI with an intermediate or a private marker,
\* OSC ended by BEL and by ST, DCS, and control bytes.
Unrecognised ==
    { CsiBytes(d, << >>, f) : d \in { << >>, << 50 >> }, f \in { 71, 109 } }
    \cup { << 27, 91, 33, 65 >>, << 27, 91, 50, 32, 65 >>, << 27, 91, 63, 50, 65 >>,
           << 27, 93, 48, 59, 65, 7 >>, << 27, 93, 65, 27, 92 >>,
           << 27, 80, 65, 27, 92 >> }
    \cup { << c >> : c \in { 0, 7, 8, 11, 12, 24, 27, 31 } }

CsiInit ==
    /\ limit = [ids |-> 0, feeds |-> CsiMaxFeeds, sfeeds |-> 0,
                renders |-> CsiMaxRenders, failures |-> 0,
                run |-> 0, selected |-> 0, log_failed_ids |-> FALSE,
                primary |-> CsiFeeds \cup Unrecognised, secondary |-> {}]
    /\ InitEngine
    /\ script = << >>

CsiNext ==
    \/ \E bytes \in limit.primary : FeedPrimary(bytes)
    \/ \E written \in 0..(Len(RenderWrites.all) + 1) : Render(written)

CsiSpec == CsiInit /\ [][CsiNext]_vars

(***************************************************************************)
(* The engine under a caller that creates, removes, selects and expands    *)
(* secondary outputs and renders once.                                     *)
(***************************************************************************)
OrderInit ==
    /\ limit = [ids |-> OrderMaxIds, feeds |-> 0, sfeeds |-> 0,
                renders |-> OrderMaxRenders, failures |-> 0,
                run |-> 0, selected |-> 0, log_failed_ids |-> FALSE,
                primary |-> {}, secondary |-> {}]
    /\ InitEngine
    /\ script = << >>

OrderNext ==
    \/ \E title \in Titles : NewSecondaryOutput(title)
    \/ \E id \in Ids : RemoveSecondaryOutput(id)
    \/ MoveCursorDown
    \/ ToggleCurrentSelectionExpanded
    \/ \E written \in 0..(Len(RenderWrites.all) + 1) : Render(written)

OrderSpec == OrderInit /\ [][OrderNext]_vars

(***************************************************************************)
(* The engine under a caller that passes a byte sequence in three slices,  *)
(* cut at any two places, and renders at any time.                         *)
(***************************************************************************)
\* "a" ESC[12C ESC[F
TextForward12PreviousLine == << 97, 27, 91, 49, 50, 67, 27, 91, 70 >>

SplitInputs == { Example, TextForward12PreviousLine }

Slices(b) ==
    { << SubSeq(b, 1, i), SubSeq(b, i + 1, j), SubSeq(b, j + 1, Len(b)) >> :
        i \in 0..Len(b), j \in 0..Len(b) }

Scripts == UNION { { sl \in Slices(b) : Len(sl[1]) + Len(sl[2]) + Len(sl[3]) = Len(b) } :
                   b \in SplitInputs }

FeedScripted ==
    /\ script # << >>
    /\ HandlePrimaryBytes(Head(script))
    /\ script' = Tail(script)
    /\ UNCHANGED << created, sfed, limit >>

SplitInit ==
    /\ limit = [ids |-> SplitMaxIds, feeds |-> 0, sfeeds |-> 0,
                renders |-> SplitMaxRenders, failures |-> 0,
                run |-> 0, selected |-> 0, log_failed_ids |-> FALSE,
                primary |-> {}, secondary |-> {}]
    /\ InitEngine
    /\ script \in Scripts

SplitNext ==
    \/ FeedScripted
    \/ \E written \in 0..(Len(RenderWrites.all) + 1) : Render(written)
    \/ \E title \in Titles : NewSecondaryOutput(title)

SplitSpec == SplitInit /\ [][SplitNext]_vars

(***************************************************************************)
(* The engine under a caller that creates secondary outputs and renders    *)
(* while time passes.  Instant::now() is monotonic; the instants are those *)
(* around the first two whole seconds after the reference instant.         *)
(***************************************************************************)
Instants == { 250, 750, 999, 1000, 1250, 1999, 2000 }

Elapse(at) ==
    /\ ~aborted
    /\ at > now
    /\ now' = at
    /\ last' = Call("elapse", NoId, TRUE)
    /\ run' = NoRun
    /\ UNCHANGED << engine, build, aborted, term, fed, returned, removed,
                    created, sfed, count, script, limit >>

TimeInit ==
    /\ limit = [ids |-> TimeMaxIds, feeds |-> 0, sfeeds |-> 0,
                renders |-> TimeMaxRenders, failures |-> 0,
                run |-> 0, selected |-> 0, log_failed_ids |-> FALSE,
                primary |-> {}, secondary |-> {}]
    /\ InitEngine
    /\ script = << >>

TimeNext ==
    \/ \E at \in Instants : Elapse(at)
    \/ \E title \in Titles : NewSecondaryOutput(title)
    \/ \E written \in 0..(Len(RenderWrites.all) + 1) : Render(written)

TimeSpec == TimeInit /\ [][TimeNext]_vars

(***************************************************************************)
(* The engine under a caller that creates one secondary output, feeds it   *)
(* lines, expands it and renders.                                          *)
(***************************************************************************)
WinInit ==
    /\ limit = [ids |-> WinMaxIds, feeds |-> 0, sfeeds |-> WinMaxSecondaryFeeds,
                renders |-> WinMaxRenders, failures |-> 0,
                run |-> 0, selected |-> 0, log_failed_ids |-> FALSE,
                primary |-> {},
                secondary |-> { Text_a, CrLf, TwoLines, FourLines }]
    /\ InitEngine
    /\ script = << >>

WinNext ==
    \/ \E written \in 0..(Len(RenderWrites.all) + 1) : Render(written)
    \/ \E title \in Titles : NewSecondaryOutput(title)
    \/ \E id \in Ids, bytes \in limit.secondary : HandleSecondaryBytes(id, bytes)
    \/ ToggleCurrentSelectionExpanded

WinSpec == WinInit /\ [][WinNext]_vars

(***************************************************************************)
(* The engine under a producer that delivers whole non-empty lines, each   *)
(* followed by a line break, to one secondary output, which the caller     *)
(* expands and renders (the tests shows_lines_when_expanded,               *)
(* only_shows_most_recent_lines and handles_trailing_blank_lines).         *)
(***************************************************************************)
Line_a == << 97, 13, 10 >>
Line_b == << 98, 13, 10 >>

LineInit ==
    /\ limit = [ids |-> LineMaxIds, feeds |-> 0, sfeeds |-> LineMaxSecondaryFeeds,
                renders |-> LineMaxRenders, failures |-> 0,
                run |-> 0, selected |-> 0, log_failed_ids |-> FALSE,
                primary |-> {},
                secondary |-> { Line_a, Line_b }]
    /\ InitEngine
    /\ script = << >>

LineNext ==
    \/ \E written \in 0..(Len(RenderWrites.all) + 1) : Render(written)
    \/ \E title \in Titles : NewSecondaryOutput(title)
    \/ \E id \in Ids, bytes \in limit.secondary : HandleSecondaryBytes(id, bytes)
    \/ ToggleCurrentSelectionExpanded

LineSpec == LineInit /\ [][LineNext]_vars

(***************************************************************************)
(* The engine under a primary stream that moves the cursor by the largest  *)
(* parameter a CSI sequence carries (65535), then prints, tabs or moves    *)
(* again, with or without a panel to draw.                                 *)
(***************************************************************************)
CsiUp65535 == << 27, 91, 54, 53, 53, 51, 53, 65 >>
CsiForward65535 == << 27, 91, 54, 53, 53, 51, 53, 67 >>
OvfChunks == { CsiUp65535, CsiForward65535, Text_a, Tab, CsiUp2, CsiForward3,
               CsiPreviousLine, LineFeed }

OvfInit ==
    /\ limit = [ids |-> OvfMaxIds, feeds |-> OvfMaxFeeds, sfeeds |-> 0,
                renders |-> OvfMaxRenders, failures |-> 0,
                run |-> 0, selected |-> 0, log_failed_ids |-> FALSE,
                primary |-> OvfChunks, secondary |-> {}]
    /\ InitEngine
    /\ script = << >>

OvfNext ==
    \/ \E written \in 0..(Len(RenderWrites.all) + 1) : Render(written)
    \/ \E bytes \in limit.primary : FeedPrimary(bytes)
    \/ \E title \in Titles : NewSecondaryOutput(title)

OvfSpec == OvfInit /\ [][OvfNext]_vars

(***************************************************************************)
(* The engine behind the single serialization point, with one primary      *)
(* producer and one producer per secondary output: the byte events of the  *)
(* producers arrive one at a time in any interleaving, each producer's own *)
(* events in its order, between the renders.                               *)
(***************************************************************************)
MixInit ==
    /\ limit = [ids |-> MixMaxIds, feeds |-> MixMaxFeeds,
                sfeeds |-> MixMaxSecondaryFeeds,
                renders |-> MixMaxRenders, failures |-> 0,
                run |-> 0, selected |-> 0, log_failed_ids |-> FALSE,
                primary |-> { Text_a, CsiUp2 },
                secondary |-> { Line_a, Text_bc }]
    /\ InitEngine
    /\ script = << >>

MixNext ==
    \/ \E written \in 0..(Len(RenderWrites.all) + 1) : Render(written)
    \/ \E bytes \in limit.primary : FeedPrimary(bytes)
    \/ \E title \in Titles : NewSecondaryOutput(title)
    \/ \E id \in Ids, bytes \in limit.secondary : HandleSecondaryBytes(id, bytes)
    \/ ToggleCurrentSelectionExpanded

MixSpec == MixInit /\ [][MixNext]_vars

(***************************************************************************)
(* Properties.                                                             *)
(***************************************************************************)
Selected == secondary_output_selected_index
SelectedValid == Selected < Len(secondary_outputs)
LiveIds(outs) == { outs[i].id : i \in 1..Len(outs) }
SelectedId(outs, selected) == outs[selected + 1].id

\* C1: whenever the list of secondary outputs is non-empty, selected_index is
\* one of its indices, 0 .. len - 1.
C1_SelectedIndexValid ==
    secondary_outputs # << >> => Selected \in 0..(Len(secondary_outputs) - 1)

\* C2: move_cursor_down and move_cursor_up on an empty list return without
\* panicking and change nothing of the engine.
C2_NavigationOnEmptyIsNoOp ==
    [][ (last'.op \in { "move_cursor_down", "move_cursor_up" }
         /\ secondary_outputs = << >>)
        => (~aborted' /\ UNCHANGED engine) ]_vars

\* C3: a successful remove_secondary_output on a valid selection keeps the same
\* output selected when another one is removed, decrementing the index exactly
\* when the removed index is before it, and selects the following output when
\* the selected one is removed and has a follower.
C3_RemoveKeepsSelection ==
    [][ (last'.op = "remove_secondary_output" /\ last'.ok /\ SelectedValid)
        => LET idx == (CHOOSE i \in 1..Len(secondary_outputs) :
                            secondary_outputs[i].id = last'.id) - 1
               after == secondary_output_selected_index'
           IN  /\ idx # Selected =>
                    /\ after < Len(secondary_outputs')
                    /\ SelectedId(secondary_outputs', after)
                            = SelectedId(secondary_outputs, Selected)
                    /\ after = IF idx < Selected THEN Selected - 1 ELSE Selected
               /\ (idx = Selected /\ Selected + 1 < Len(secondary_outputs)) =>
                    /\ after < Len(secondary_outputs')
                    /\ SelectedId(secondary_outputs', after)
                            = SelectedId(secondary_outputs, Selected + 1) ]_vars

\* A removal of an output created before the selected one, which is still
\* selected, at a smaller index, with another output after it.
C3_Witness ==
    /\ last.op = "remove_secondary_output" /\ last.ok
    /\ SelectedValid
    /\ last.id < SelectedId(secondary_outputs, Selected)
    /\ Selected + 1 < Len(secondary_outputs)

\* C7: new_secondary_output returns 0, 1, 2, ..., each id greater than all
\* returned before, and no two live outputs share an id.
C7_IdsNeverReused ==
    /\ \A i \in 1..Len(returned) : returned[i] = i - 1
    /\ \A i, j \in 1..Len(returned) : i < j => returned[i] < returned[j]
    /\ \A i, j \in 1..Len(secondary_outputs) :
            i # j => secondary_outputs[i].id # secondary_outputs[j].id

\* An output created after another was removed.
C7_Witness ==
    /\ last.op = "new_secondary_output"
    /\ removed # {}
    /\ Len(returned) >= 2

\* C8: a remove_secondary_output or handle_secondary_bytes call that names an
\* id removed earlier fails, whatever was created or removed since.
C8_RemovedIdStaysInvalid ==
    [][ (last'.op \in { "remove_secondary_output", "handle_secondary_bytes" }
         /\ last'.id \in removed)
        => ~last'.ok ]_vars

\* A failed call on a removed id, after a later output was created.
C8_Witness ==
    /\ last.op \in { "remove_secondary_output", "handle_secondary_bytes" }
    /\ ~last.ok
    /\ last.id \in removed
    /\ \E i \in 1..Len(secondary_outputs) : secondary_outputs[i].id > last.id

\* C10: N + 5 move_cursor_down calls from index 0 of N >= 1 outputs end at
\* N - 1; move_cursor_up calls, at least as many as a valid index, end at 0;
\* and one call on a valid selection moves the index by at most one.
C10_CursorClamps ==
    [][ /\ LET len == Len(secondary_outputs')
               after == secondary_output_selected_index'
           IN  /\ (run'.op = "move_cursor_down" /\ len >= 1 /\ run'.from = 0
                   /\ run'.n >= len + 5) => after = len - 1
               /\ (run'.op = "move_cursor_up" /\ len >= 1 /\ run'.from < len
                   /\ run'.n >= run'.from) => after = 0
        /\ (last'.op \in { "move_cursor_down", "move_cursor_up" } /\ SelectedValid)
           => (secondary_output_selected_index' - Selected) \in { 0 - 1, 0, 1 } ]_vars

\* N + 5 downward moves over the longest list.
C10_Witness ==
    /\ run.op = "move_cursor_down" /\ run.from = 0
    /\ Len(secondary_outputs) = SelMaxIds
    /\ run.n = SelMaxIds + 5
    /\ Selected = SelMaxIds - 1


\* C9: a remove_secondary_output or handle_secondary_bytes call that fails
\* leaves the sink, the pending bytes, the parser, the offset, the next id, the
\* outputs, the selection and previous_render_extra_lines as they were.
C9_FailedCallChangesNothing ==
    [][ (last'.op \in { "remove_secondary_output", "handle_secondary_bytes" }
         /\ ~last'.ok)
        => UNCHANGED engine ]_vars

\* A failed call on an engine that has rendered a panel and moved its offset
\* and selection.
C9_Witness ==
    /\ last.op \in { "remove_secondary_output", "handle_secondary_bytes" }
    /\ ~last.ok
    /\ output # << >>
    /\ previous_render_extra_lines > 0
    /\ primary_output_final_cursor_offset.y > 0
    /\ Selected > 0
    /\ removed # {}

\* The primary bytes written so far hold no byte that moves the terminal's
\* cursor without an action of the interpreter.
OnlyTrackedMoves == \A i \in 1..Len(fed) : fed[i] # 8

ResetEmitted == \E i \in 1..Len(output) : output[i].cmd = "Clear"

\* C5 as claimed: the reset prefix of a render that follows a drawn panel puts
\* the terminal's cursor on the row and column it had after the previous
\* render's primary bytes.
C5_ResetRestoresCursor ==
    [][ (last'.op = "render" /\ last'.ok /\ previous_render_extra_lines > 0)
        => term'.afterReset = term.afterPrimary ]_vars

\* C5 as amended: the prefix restores the row, and puts the cursor in column x
\* of the stored offset, which is the column it had when the primary bytes
\* moved the cursor only by what the interpreter tracks.
C5_ResetRestoresRowAndTrackedColumn ==
    [][ (last'.op = "render" /\ last'.ok /\ previous_render_extra_lines > 0)
        => /\ term'.afterReset.row = term.afterPrimary.row
           /\ term'.afterReset.col = primary_output_final_cursor_offset.x
           /\ OnlyTrackedMoves => term'.afterReset = term.afterPrimary ]_vars

\* A second render, after a panel drawn below an offset of (1, 2), that has
\* brought the cursor back to column 1.
C5_Witness ==
    /\ last.op = "render" /\ last.ok
    /\ ResetEmitted
    /\ OnlyTrackedMoves
    /\ primary_output_final_cursor_offset = [x |-> 1, y |-> 2]
    /\ term.afterReset = term.afterPrimary
    /\ term.afterReset.col = 1


\* The primary bytes the sink has received, in order.
SinkPrimary(toks) ==
    LET bytes == SelectSeq(toks, LAMBDA t : t.cmd = "Byte")
    IN  [i \in 1..Len(bytes) |-> bytes[i].n]

Offset == primary_output_final_cursor_offset

\* C6: a render moves the stored offset by the actions of the pending bytes,
\* from where the previous render left it: text one column right, a tab to the
\* next multiple of 8, a line feed one row up or none at 0, a carriage return
\* and the line moves to column 0, up and previous-line n rows higher, down and
\* next-line n rows lower or to 0, forward n right, backward n left or to 0;
\* the example ends at (3, 1) from (0, 0).
C6_FoldTable ==
    [][ (last'.op = "render" /\ last'.ok)
        => LET x == Offset.x
               y == Offset.y
               to == Offset'
               At(c, r) == [x |-> c, y |-> r]
           IN  /\ primary_bytes = << >> => to = At(x, y)
               /\ primary_bytes = Text_a => to = At(x + 1, y)
               /\ primary_bytes = Tab =>
                    /\ to.y = y
                    /\ to.x > x /\ to.x <= x + 8 /\ to.x % 8 = 0
               /\ primary_bytes = LineFeed =>
                    to = At(x, IF y = 0 THEN 0 ELSE y - 1)
               /\ primary_bytes = CarriageReturn => to = At(0, y)
               /\ primary_bytes = CsiUp2 => to = At(x, y + 2)
               /\ primary_bytes = CsiDown =>
                    to = At(x, IF y < 1 THEN 0 ELSE y - 1)
               /\ primary_bytes = CsiForward3 => to = At(x + 3, y)
               /\ primary_bytes = CsiBackward3 =>
                    to = At(IF x < 3 THEN 0 ELSE x - 3, y)
               /\ primary_bytes = CsiNextLine2 =>
                    to = At(0, IF y < 2 THEN 0 ELSE y - 2)
               /\ primary_bytes = CsiPreviousLine => to = At(0, y + 1)
               /\ (primary_bytes = Example /\ Offset = At(0, 0))
                    => to = At(3, 1) ]_vars

\* The example rendered from (0, 0), then a backward move rendered from (3, 1).
C6_Witness ==
    /\ last.op = "render" /\ last.ok
    /\ fed = Example \o CsiBackward3
    /\ count.renders = 2
    /\ primary_bytes = << >>
    /\ Offset = [x |-> 0, y |-> 1]

\* What the step has appended to the sink.
Written == SubSeq(output', Len(output) + 1, Len(output'))

RowsOf(toks) ==
    LET rows == SelectSeq(toks, LAMBDA t : t.cmd = "Row")
    IN  [k \in 1..Len(rows) |-> rows[k].txt]

\* C11: a render shows of an expanded output the rows start..end of its
\* buffer in order, at most max_lines of them, where end is the larger of the
\* cursor's row (less one when the cursor is in column 0) and the last
\* non-empty row, and start is end - (max_lines - 1) or 0; it shows no row when
\* end is 0 or the output is collapsed; of "a", "b", "c", "d", each with a line
\* break, it shows "b", "c", "d".
C11_ExpandedWindow ==
    [][ (last'.op = "render" /\ last'.ok /\ Len(secondary_outputs) = 1)
        => LET o == secondary_outputs[1]
               lines == o.buffer.lines
               cur == IF o.buffer.cursor_col = 0 /\ o.buffer.cursor_row > 0
                      THEN o.buffer.cursor_row - 1 ELSE o.buffer.cursor_row
               filled == { r \in 0..(Len(lines) - 1) : lines[r + 1] # << >> }
               end == CHOOSE e \in filled \cup { cur, 0 } :
                          \A r \in filled \cup { cur, 0 } : r <= e
               start == IF end >= secondary_output_max_lines
                        THEN end - (secondary_output_max_lines - 1) ELSE 0
               shown == RowsOf(Written)
           IN  /\ Len(shown) <= secondary_output_max_lines
               /\ (~o.expanded \/ end = 0) => shown = << >>
               /\ (o.expanded /\ end > 0) =>
                    /\ Len(shown) = end - start + 1
                    /\ \A k \in 1..Len(shown) : shown[k] = RowAt(lines, start + k - 1)
               /\ (o.expanded /\ lines = << <<97>>, <<98>>, <<99>>, <<100>> >>
                   /\ o.buffer.cursor_row = 4 /\ o.buffer.cursor_col = 0)
                    => shown = << <<98>>, <<99>>, <<100>> >> ]_vars

\* The four lines of the example rendered expanded.
C11_Witness ==
    /\ last.op = "render" /\ last.ok
    /\ Len(secondary_outputs) = 1
    /\ secondary_outputs[1].expanded
    /\ secondary_outputs[1].buffer.lines = << <<97>>, <<98>>, <<99>>, <<100>> >>
    /\ secondary_outputs[1].buffer.cursor_row = 4
    /\ RowsOf(output) = << <<98>>, <<99>>, <<100>> >>

SecondsShown(toks) ==
    LET titles == SelectSeq(toks, LAMBDA t : t.cmd = "Title")
    IN  [k \in 1..Len(titles) |-> titles[k].n]

WholeSeconds(at) ==
    (at - secondary_output_reference_start_time) \div MillisPerSecond

\* C12: every output's start is a whole number of seconds after the reference
\* instant, the last one not after its creation; a render shows for every
\* output the whole seconds since the reference now less those at its
\* creation, so outputs created in the same second show the same number and
\* all numbers step when a whole second since the reference has passed.
C12_OutputsTickTogether ==
    [][ /\ \A i \in 1..Len(secondary_outputs') :
              LET o == secondary_outputs'[i]
                  at == created'[o.id + 1]
                  since == o.start - secondary_output_reference_start_time
              IN  /\ since % MillisPerSecond = 0
                  /\ o.start <= at
                  /\ at < o.start + MillisPerSecond
        /\ (last'.op = "render" /\ last'.ok)
            => LET shown == SecondsShown(Written)
               IN  /\ Len(shown) = Len(secondary_outputs)
                   /\ \A i \in 1..Len(shown) :
                        shown[i] = WholeSeconds(now)
                            - WholeSeconds(created[secondary_outputs[i].id + 1]) ]_vars

\* Outputs created 250 ms and 750 ms after the reference, rendered 999 ms
\* after it with 0 s and 0 s and 1000 ms after it with 1 s and 1 s.
C12_Witness ==
    /\ created = << 250, 750 >>
    /\ now = 1000
    /\ last.op = "render" /\ last.ok
    /\ SecondsShown(output) = << 0, 0, 1, 1 >>

\* The offset one render leaves when all the bytes passed so far are pending
\* in a new engine.
OffsetInOneRender ==
    LET all == Fold([x |-> 0, y |-> 0, ovf |-> FALSE],
                    parse_bytes(ParserNew, fed).actions)
    IN  [x |-> all.x, y |-> all.y]

\* C13: once everything passed has been rendered, the offset is the one a
\* single render of all the bytes leaves, wherever the bytes were cut into
\* slices and wherever renders came between the slices.
C13_OffsetIndependentOfSplit ==
    (primary_bytes = << >> /\ ~aborted) => Offset = OffsetInOneRender

\* The example passed and rendered in slices, one render having come between
\* the "[" of an escape sequence and the rest of it.
C13_Witness ==
    /\ script = << >>
    /\ primary_bytes = << >>
    /\ fed = Example
    /\ Offset = [x |-> 3, y |-> 1]
    /\ \E i \in 1..(Len(output) - 1) :
          /\ output[i].cmd = "Byte" /\ output[i].n = 91
          /\ output[i + 1].cmd = "MoveToColumn"

\* C14: no call but render changes the sink, and handle_primary_bytes changes
\* nothing of the engine but the pending bytes, which it extends.
C14_OnlyRenderWrites ==
    [][ /\ last'.op # "render" => output' = output
        /\ last'.op = "handle_primary_bytes" =>
            /\ Len(primary_bytes') >= Len(primary_bytes)
            /\ SubSeq(primary_bytes', 1, Len(primary_bytes)) = primary_bytes
            /\ UNCHANGED << output, primary_output_parser,
                            primary_output_final_cursor_offset,
                            secondary_output_next_id, secondary_outputs,
                            secondary_output_selected_index,
                            previous_render_extra_lines >> ]_vars

\* Bytes passed to an engine that has drawn a panel.
C14_Witness ==
    /\ last.op = "handle_primary_bytes"
    /\ primary_bytes # << >>
    /\ output # << >>
    /\ secondary_outputs # << >>
    /\ previous_render_extra_lines > 0

\* C15: toggle_current_selection_expanded on a non-empty list flips the
\* expanded flag of the output at selected_index and changes nothing else of
\* the engine; on an empty list it changes nothing.
C15_ToggleFlipsSelected ==
    [][ last'.op = "toggle_current_selection_expanded"
        => /\ UNCHANGED << output, primary_bytes, primary_output_parser,
                           primary_output_final_cursor_offset,
                           secondary_output_next_id,
                           secondary_output_selected_index,
                           previous_render_extra_lines >>
           /\ Len(secondary_outputs') = Len(secondary_outputs)
           /\ secondary_outputs # << >> =>
                \E s \in 1..Len(secondary_outputs) :
                    /\ s = secondary_output_selected_index + 1
                    /\ secondary_outputs' =
                         [secondary_outputs EXCEPT
                            ![s].expanded = ~secondary_outputs[s].expanded] ]_vars

\* The header lines a render draws, each as [selected, expanded, title].
HeadersOf(toks) ==
    LET cursors == SelectSeq(toks, LAMBDA t : t.cmd = "Cursor")
        indicators == SelectSeq(toks, LAMBDA t : t.cmd = "Indicator")
        titles == SelectSeq(toks, LAMBDA t : t.cmd = "Title")
    IN  IF Len(cursors) = Len(titles) /\ Len(indicators) = Len(titles)
        THEN [k \in 1..Len(titles) |->
                [selected |-> cursors[k].n = 1, expanded |-> indicators[k].n = 1,
                 title |-> titles[k].txt]]
        ELSE << >>

\* C16: the ids of the list increase strictly along it; new_secondary_output
\* appends a collapsed output with the id it returns and changes no other;
\* remove_secondary_output takes out the output with the id and changes no
\* other; a render draws one header line per output, in the order of the list.
C16_CreationOrderKept ==
    [][ /\ \A i, j \in 1..Len(secondary_outputs') :
              i < j => secondary_outputs'[i].id < secondary_outputs'[j].id
        /\ (last'.op = "new_secondary_output")
            => /\ Len(secondary_outputs') = Len(secondary_outputs) + 1
               /\ SubSeq(secondary_outputs', 1, Len(secondary_outputs))
                    = secondary_outputs
               /\ ~secondary_outputs'[Len(secondary_outputs')].expanded
               /\ secondary_outputs'[Len(secondary_outputs')].id = last'.id
        /\ (last'.op = "remove_secondary_output" /\ last'.ok)
            => \E k \in 1..Len(secondary_outputs) :
                  /\ secondary_outputs[k].id = last'.id
                  /\ secondary_outputs' =
                        SubSeq(secondary_outputs, 1, k - 1)
                        \o SubSeq(secondary_outputs, k + 1, Len(secondary_outputs))
        /\ (last'.op = "render" /\ last'.ok)
            => LET drawn == HeadersOf(Written)
               IN  /\ Len(drawn) = Len(secondary_outputs)
                   /\ \A k \in 1..Len(drawn) :
                        /\ drawn[k].expanded = secondary_outputs[k].expanded
                        /\ drawn[k].title = secondary_outputs[k].title
                        /\ drawn[k].selected
                             = (k = secondary_output_selected_index + 1) ]_vars

\* A panel drawn for the second and third outputs created, the second of them
\* expanded and selected, after the first was removed.
C16_Witness ==
    /\ last.op = "render" /\ last.ok
    /\ Len(secondary_outputs) = 2
    /\ secondary_outputs[1].id = 1 /\ secondary_outputs[2].id = 2
    /\ ~secondary_outputs[1].expanded /\ secondary_outputs[2].expanded
    /\ secondary_output_selected_index = 1
    /\ removed = { 0 }
    /\ HeadersOf(output)[2].expanded /\ HeadersOf(output)[2].selected

\* The number a parameter's digits write: 0 for none.
ParamValue(digits) ==
    IF digits = << >> THEN 0
    ELSE IF Len(digits) = 1 THEN digits[1] - 48
    ELSE 10 * (digits[1] - 48) + (digits[2] - 48)

ActionOfFinal(final) ==
    CASE final = 65 -> "CursorUp"
      [] final = 66 -> "CursorDown"
      [] final = 67 -> "CursorForward"
      [] final = 68 -> "CursorBackward"
      [] final = 69 -> "CursorNextLine"
      [] final = 70 -> "CursorPreviousLine"

\* C17: a render of one CSI sequence with a final of A..F and no intermediate
\* finds the one cursor action of that final, with n the first parameter, or 1
\* when the parameter is omitted or 0, and moves the offset by it.
C17_CsiParameterDefaultsToOne ==
    [][ (last'.op = "render" /\ last'.ok)
        => \A d \in ParamTexts, m \in MoreParams, f \in CursorFinals :
              primary_bytes = CsiBytes(d, m, f)
              => LET n == IF ParamValue(d) = 0 THEN 1 ELSE ParamValue(d)
                     a == VteAction(ActionOfFinal(f), n)
                     to == FoldAction([x |-> Offset.x, y |-> Offset.y,
                                       ovf |-> FALSE], a)
                 IN  /\ n >= 1
                     /\ parse_bytes(primary_output_parser, primary_bytes).actions
                          = << a >>
                     /\ Offset' = [x |-> to.x, y |-> to.y] ]_vars

\* ESC[0;5C rendered after ESC[12C: one column right of column 12.
C17_Witness ==
    /\ last.op = "render" /\ last.ok
    /\ fed = CsiBytes(<< 49, 50 >>, << >>, 67) \o CsiBytes(<< 48 >>, << 59, 53 >>, 67)
    /\ count.renders = 2
    /\ primary_bytes = << >>
    /\ Offset = [x |-> 13, y |-> 0]

UnrecognisedRuns ==
    Unrecognised \cup { a \o b : a \in Unrecognised, b \in Unrecognised }

C19_SinkErrorStopsRender ==
    [][ last'.op = "render"
        => LET all == RenderWrites.all
           IN  /\ \E n \in 0..Len(all) : Written = SubSeq(all, 1, n)
               /\ last'.ok => (Written = all /\ count'.failures = count.failures)
               /\ ~last'.ok => (~aborted' /\ count'.failures = count.failures + 1)
       ]_vars

\* A render that wrote the pending bytes and failed inside the panel's first
\* header line.
C19_Witness ==
    /\ last.op = "render" /\ ~last.ok
    /\ count.failures = 2
    /\ \E i \in 1..Len(secondary_outputs) : secondary_outputs[i].expanded
    /\ SinkPrimary(output) = fed /\ fed # << >>
    /\ output[Len(output)].cmd = "Cursor"

\* The number of writes of a kind among a render's writes.
CountOf(toks, cmd) == Cardinality({ i \in 1..Len(toks) : toks[i].cmd = cmd })

\* C20: after a successful render previous_render_extra_lines is the number of
\* line breaks the render wrote, which is one per secondary output plus one per
\* row of expanded content written, and 0 with no secondary output; a
\* successful render writes the erase/reposition prefix exactly when the count
\* it finds is greater than 0, as its first writes, moving up by that count,
\* and before every primary byte.
C20_ExtraLinesCountLineBreaks ==
    [][ (last'.op = "render" /\ last'.ok)
        => /\ previous_render_extra_lines' = CountOf(Written, "Newline")
           /\ previous_render_extra_lines'
                  = Len(secondary_outputs) + CountOf(Written, "Row")
           /\ secondary_outputs = << >> => previous_render_extra_lines' = 0
           /\ previous_render_extra_lines > 0 <=> CountOf(Written, "Clear") > 0
           /\ previous_render_extra_lines > 0
                  => /\ Len(Written) >= 5
                     /\ [k \in 1..5 |-> Written[k].cmd]
                            = << "MoveToColumn", "MoveUp", "Clear", "MoveUp", "MoveRight" >>
                     /\ Written[2].n = previous_render_extra_lines
                     /\ \A i \in 1..Len(Written) : Written[i].cmd = "Byte" => i > 5
       ]_vars

\* A second successful render that erased a panel of a header line and two
\* rows, wrote primary bytes after the prefix and drew the panel again.
C20_Witness ==
    /\ last.op = "render" /\ last.ok
    /\ count.renders = 2
    /\ previous_render_extra_lines = 3
    /\ \E i \in 1..Len(output) :
          /\ output[i].cmd = "MoveUp" /\ output[i].n = 3
          /\ output[i + 1].cmd = "Clear"
          /\ \E j \in (i + 1)..Len(output) : output[j].cmd = "Byte"

\* The buffer of an output that has received k non-empty lines, each followed
\* by a line break, and nothing else: k filled rows and the cursor at the start
\* of the row after them.
ReceivedLines(buf, k) ==
    /\ Len(buf.lines) = k
    /\ \A r \in 1..k : buf.lines[r] # << >>
    /\ buf.cursor_row = k /\ buf.cursor_col = 0

\* C21: a successful render of one expanded output that has received k
\* non-empty lines, each followed by a line break, shows all k of them in order
\* when 1 <= k <= max_lines, and the last max_lines of them when there are
\* more.
C21_ShowsReceivedLines ==
    [][ (last'.op = "render" /\ last'.ok /\ Len(secondary_outputs) = 1
         /\ secondary_outputs[1].expanded)
        => \A k \in 1..LineMaxSecondaryFeeds :
              ReceivedLines(secondary_outputs[1].buffer, k)
              => LET lines == secondary_outputs[1].buffer.lines
                     first == IF k > secondary_output_max_lines
                              THEN k - secondary_output_max_lines + 1 ELSE 1
                 IN  RowsOf(Written) = SubSeq(lines, first, k) ]_vars

\* C22: in every render the cursor-offset arithmetic stays within 0..65535:
\* no increment of the fold (x + 1, x + n, the tab advance, y + n) and no
\* y + 1 of the move-up and move-down commands exceeds 65535, so no render
\* wraps around or aborts.
C22_OffsetArithmeticInRange ==
    [][ last'.op = "render"
        => /\ RenderOverflows(RenderWrites) = {}
           /\ ~aborted'
           /\ build' = "any" ]_vars

\* The bytes one secondary producer has delivered, in its own order.
ProducerBytes(log, id) ==
    LET own == SelectSeq(log, LAMBDA e : e.id = id)
    IN  Concat([k \in 1..Len(own) |-> own[k].bytes])

\* The line buffer of a producer's bytes, fed to a fresh buffer in one piece.
ProducerBuffer(log, id) ==
    CHOOSE buf \in { handle_bytes(BufferNew, bytes) :
                        bytes \in { ProducerBytes(log, id) } } : TRUE

\* The engine state as the producers' own streams determine it: every line
\* buffer is that of its producer's bytes, and the pending primary bytes are
\* those delivered and not yet written.
StateFollowsProducers(outs, log, sink, pending, delivered) ==
    /\ \A i \in 1..Len(outs) : outs[i].buffer = ProducerBuffer(log, outs[i].id)
    /\ SinkPrimary(sink) \o pending = delivered

\* The rows a frame shows when every expanded output shows its producer's
\* bytes.
ProducerRows ==
    RowsOf(Concat([i \in 1..Len(secondary_outputs) |->
              IF secondary_outputs[i].expanded
              THEN ExpandedTokens(ProducerBuffer(sfed, secondary_outputs[i].id))
              ELSE << >>]))

\* C23: however the byte events of the producers interleave, the engine state
\* is the one each producer's own stream determines, and so is the next frame:
\* handle_secondary_bytes(id, _) changes the line buffer of output id and
\* nothing else, handle_primary_bytes changes the pending primary bytes and
\* nothing else, and a render writes the pending primary bytes and the rows of
\* each expanded output's own stream.
C23_InterleavingsCommute ==
    [][ /\ StateFollowsProducers(secondary_outputs', sfed', output',
                                 primary_bytes', fed')
        /\ (last'.op = "handle_secondary_bytes" /\ last'.ok)
              => /\ UNCHANGED << output, primary_bytes, primary_output_parser,
                                 primary_output_final_cursor_offset,
                                 secondary_output_next_id,
                                 secondary_output_selected_index,
                                 previous_render_extra_lines >>
                 /\ Len(secondary_outputs') = Len(secondary_outputs)
                 /\ \A i \in 1..Len(secondary_outputs) :
                       IF secondary_outputs[i].id = last'.id
                       THEN secondary_outputs'[i]
                                = [secondary_outputs[i] EXCEPT
                                       !.buffer = secondary_outputs'[i].buffer]
                       ELSE secondary_outputs'[i] = secondary_outputs[i]
        /\ last'.op = "handle_primary_bytes"
              => UNCHANGED << output, primary_output_parser,
                              primary_output_final_cursor_offset,
                              secondary_output_next_id, secondary_outputs,
                              secondary_output_selected_index,
                              previous_render_extra_lines >>
        /\ (last'.op = "render" /\ last'.ok)
              => /\ SinkPrimary(Written) = primary_bytes
                 /\ RowsOf(Written) = ProducerRows
       ]_vars

\* A frame drawn after the two secondary producers' events alternated, with the
\* primary producer's event among them, showing the first output's two lines.
C23_Witness ==
    /\ last.op = "render" /\ last.ok
    /\ Len(sfed) = 3
    /\ sfed[1].id = 0 /\ sfed[2].id = 1 /\ sfed[3].id = 0
    /\ fed # << >>
    /\ Len(secondary_outputs) = 2
    /\ secondary_outputs[1].expanded
    /\ RowsOf(output) = << << 97 >>, << 97 >> >>

=============================================================================
